---- MODULE Spec2Model ----
(***************************************************************************)
(* The in-process job queue of job_queue.py: a bounded queue of job ids,   *)
(* a map of job records, worker threads that dequeue ids, limit the number *)
(* of concurrently processed jobs with a counter guarded by a lock, and    *)
(* run the handler registered for the job's type; and the handler main.py  *)
(* registers, process_document of async_document_processor.py, with the   *)
(* document store it checks for duplicates and writes to. Beside them the  *)
(* status and statistics requests of main.py, which read the job records  *)
(* and the counter, and sync_onedrive_folder with the files it downloads   *)
(* to the local disk.                                                      *)
(*                                                                         *)
(* Threads are modelled at the granularity of their shared-memory          *)
(* accesses: every assignment to a field of a Job object that             *)
(* _process_job performs outside any lock is its own step.                 *)
(***************************************************************************)
EXTENDS Integers, Sequences, FiniteSets, TLC

\* ------------------------------------------------------------------ bounds
MaxJobs == 2          \* enqueue calls made over a run (one fresh uuid each)
MaxWorkers == 2       \* worker threads start_workers may start in total
MaxClients == 2       \* threads calling enqueue concurrently
MaxCapacity == 2      \* largest max_queue_size chosen at construction
MaxConcurrent == 2    \* largest max_concurrent chosen at construction
MaxReports == 2       \* update_progress calls one handler run makes at most

Workers == 1..MaxWorkers
Clients == 1..MaxClients
JobIds == 1..MaxJobs

\* ------------------------------------------------------------------ values
NoneVal == "None"
\* None where the other values are messages (sequences of text pieces).
NoneMsg == <<>>
QUEUED == "QUEUED"
RUNNING == "RUNNING"
DONE == "DONE"
ERROR == "ERROR"
JobStatus == {QUEUED, RUNNING, DONE, ERROR}

\* Job types submitted by the routes: main.py registers a handler for
\* process_document only; onedrive_sync is submitted by add_contract_routes
\* and no handler is ever registered for it.
JobTypes == {"process_document", "onedrive_sync"}
RegisteredTypes == {"process_document"}
\* Parameter payloads of a submission.
Params == {"paramsA"}
\* Progress fractions in tenths: 0.0 is 0 and 1.0 is 10.
ProgressZero == 0
ProgressOne == 10
ProgressVals == {4}
\* What a handler may return besides its own params, and what it may raise.
HandlerDicts == {"dictR"}
HandlerErrors == {<<"boom">>}
HandlerMessage == "working"
\* datetime.utcnow() and traceback.format_exc(): only presence matters here.
UtcNow == "utcnow"
FormatExc == "Traceback"
\* No lock holder.
Free == 0

VARIABLES
    max_queue_size,   \* JobQueue.max_queue_size
    max_concurrent,   \* JobQueue.max_concurrent
    queue,            \* JobQueue._queue: FIFO of job ids
    jobs,             \* JobQueue._jobs: job id -> Job
    running_count,    \* JobQueue._running_count
    running_lock,     \* holder of JobQueue._running_lock, or Free
    shutdown,         \* JobQueue._shutdown
    handlers,         \* JobQueue._handlers: the registered job types
    nextId,           \* the next fresh uuid
    wpc,              \* worker thread -> position in _worker_loop/_process_job
    wjob,             \* worker thread -> local job_id
    wloc,             \* worker thread -> locals of _process_job and the handler
    cpc,              \* client thread -> position in enqueue
    cjob,             \* client thread -> local job_id
    supabase,         \* AsyncDocumentProcessor.supabase: TRUE for a Client,
                      \* FALSE for None (no database configured)
    documents,        \* the rows of table "documents", in order of insertion
    document_metadata, \* the rows of table "document_metadata"
    qpc,              \* status request -> position in get_job_status (main.py)
    qjob,             \* status request -> the job_id whose Job it holds
    response,         \* status request -> the response dict built so far
    stats_pc,         \* statistics request -> position in get_queue_stats
    sync,             \* the locals of a run of sync_onedrive_folder
    disk              \* the names of the files on the local disk

vars == <<max_queue_size, max_concurrent, queue, jobs, running_count,
          running_lock, shutdown, handlers, nextId, wpc, wjob, wloc, cpc, cjob,
          supabase, documents, document_metadata, qpc, qjob, response,
          stats_pc, sync, disk>>

queueVars == <<max_queue_size, max_concurrent>>
workerVars == <<wpc, wjob, wloc>>
clientVars == <<cpc, cjob, nextId>>
storeVars == <<supabase, documents, document_metadata>>
queryVars == <<qpc, qjob, response, stats_pc>>
syncVars == <<sync, disk>>
engineVars == <<queueVars, queue, jobs, running_count, running_lock, shutdown,
                handlers, workerVars, clientVars>>

\* The locals of a worker before it picked up a job: result and e of
\* _process_job, the number of progress reports made by the handler run, the
\* fraction of the last report (the default 0.0 before any) and the message
\* of the report in flight; and the locals of process_document: its position
\* (stage), file_hash, text_content, entities and document_id.
NoLocals == [result |-> NoneVal, e |-> NoneMsg, reports |-> 0,
             last |-> ProgressZero, message |-> NoneVal,
             stage |-> "start", file_hash |-> NoneVal, text_content |-> <<>>,
             entities |-> {}, document_id |-> NoneVal]

\* sync_onedrive_folder not called yet: no file listed, the counters of the
\* loop at 0, no file_hash, nothing returned or raised. local_path is the
\* bool that OneDriveManager.download_file returns; i is the number of the
\* file in turn, from 1.
NoSync ==
    [pc |-> "off", files |-> <<>>, i |-> 0, local_path |-> FALSE,
     file_hash |-> NoneVal, processed_count |-> 0, skipped_count |-> 0,
     error_count |-> 0, progress |-> 0, result |-> <<>>, raised |-> FALSE]

\* Job(id, type, status=QUEUED, created_at, params) with the dataclass defaults.
Job(job_type, params) ==
    [type |-> job_type, status |-> QUEUED, started_at |-> NoneVal,
     completed_at |-> NoneVal, progress |-> ProgressZero,
     progress_message |-> "", error |-> NoneMsg, result |-> NoneVal,
     params |-> params]

\* JobQueue.__init__: empty queue and job map, no workers, no handlers.
\* AsyncDocumentProcessor.__init__: a database client if the environment
\* configures one; the tables start empty. No request is being served,
\* sync_onedrive_folder has not been called and has downloaded nothing.
Init ==
    /\ max_queue_size \in 1..MaxCapacity
    /\ max_concurrent \in 1..MaxConcurrent
    /\ queue = <<>>
    /\ jobs = <<>>
    /\ running_count = 0
    /\ running_lock = Free
    /\ shutdown = FALSE
    /\ handlers = {}
    /\ nextId = 1
    /\ wpc = [w \in Workers |-> "off"]
    /\ wjob = [w \in Workers |-> 0]
    /\ wloc = [w \in Workers |-> NoLocals]
    /\ cpc = [c \in Clients |-> "idle"]
    /\ cjob = [c \in Clients |-> 0]
    /\ supabase \in BOOLEAN
    /\ documents = <<>>
    /\ document_metadata = <<>>
    /\ qpc = "idle"
    /\ qjob = 0
    /\ response = <<>>
    /\ stats_pc = "idle"
    /\ sync = NoSync
    /\ disk = {}


\* ------------------------------------------------------------- helpers
\* job.<field> = value on the Job object a worker holds a reference to.
SetField(job_id, fld, value) ==
    [jobs EXCEPT ![job_id] = [@ EXCEPT ![fld] = value]]

\* Mutant: a queue slot counts as taken until the job's worker is done with
\* it (fullness computed from unfinished tasks instead of qsize()).
MutQueueIsFullUnfinished ==
    Len(queue) + Cardinality({w \in DOMAIN wjob : wjob[w] # 0})
        >= max_queue_size

\* Mutant: the queue takes one id more than its capacity (> for >=).
MutQueueIsFull == Len(queue) > max_queue_size

\* queue.Queue.put(block=False) raises Full when qsize() >= maxsize.
QueueIsFull == Len(queue) >= max_queue_size

\* Mutant: the wait loop admits one job too many (> for >=).
MutAtLimit == running_count > max_concurrent

\* The test of the wait loop in _worker_loop.
AtLimit == running_count >= max_concurrent

\* Mutant: the message does not name the type.
MutNoHandlerMessage(job_type) == <<"No handler registered for job type">>

\* f"No handler registered for job type: {job.type}"
NoHandlerMessage(job_type) ==
    <<"No handler registered for job type: ", job_type>>

\* str(e) of the exception caught in _process_job.
StrOf(e) == e

\* ------------------------------------------------- register / start / stop
\* register_handler(job_type, handler)
RegisterHandler(job_type) ==
    /\ handlers' = handlers \cup {job_type}
    /\ UNCHANGED <<queueVars, queryVars, syncVars,
                   storeVars, queue, jobs, running_count, running_lock,
                   shutdown, workerVars, clientVars>>

\* start_workers(num_workers): num_workers new threads enter _worker_loop.
StartWorkers(num_workers) ==
    LET off == {w \in Workers : wpc[w] = "off"}
        new == {w \in off : Cardinality({v \in off : v < w}) < num_workers}
    IN  /\ num_workers <= Cardinality(off)
        /\ wpc' = [w \in Workers |-> IF w \in new THEN "loop" ELSE wpc[w]]
        /\ UNCHANGED <<queueVars, queryVars, syncVars,
                       storeVars, queue, jobs, running_count, running_lock,
                       shutdown, handlers, wjob, wloc, clientVars>>

\* shutdown(): sets the flag; the joins that follow only wait.
Shutdown ==
    /\ shutdown' = TRUE
    /\ UNCHANGED <<queueVars, queryVars, syncVars,
                   storeVars, queue, jobs, running_count, running_lock,
                   handlers, workerVars, clientVars>>

\* ------------------------------------------------------------------ enqueue
\* enqueue, up to the insertion of the new Job under _jobs_lock.
EnqueueCreate(c, job_type, params) ==
    /\ cpc[c] = "idle"
    /\ cjob' = [cjob EXCEPT ![c] = nextId]
    /\ nextId' = nextId + 1
    /\ jobs' = jobs @@ (nextId :> Job(job_type, params))
    /\ cpc' = [cpc EXCEPT ![c] = "put"]
    /\ UNCHANGED <<queueVars, queryVars, syncVars,
                   storeVars, queue, running_count, running_lock, shutdown,
                   handlers, workerVars>>

\* Mutant: the queue is unbounded (maxsize = 0): put never raises Full.
MutEnqueuePutUnbounded(c) ==
    /\ cpc[c] = "put"
    /\ queue' = Append(queue, cjob[c])
    /\ cpc' = [cpc EXCEPT ![c] = "idle"]
    /\ cjob' = [cjob EXCEPT ![c] = 0]
    /\ UNCHANGED <<queueVars, queryVars, syncVars,
                   storeVars, jobs, running_count, running_lock, shutdown,
                   handlers, workerVars, nextId>>

\* self._queue.put(job_id, block=False): appends and returns job_id, or
\* raises queue.Full into the except clause.
EnqueuePut(c) ==
    /\ cpc[c] = "put"
    /\ IF QueueIsFull
       THEN /\ cpc' = [cpc EXCEPT ![c] = "full"]
            /\ UNCHANGED <<queue, cjob>>
       ELSE /\ queue' = Append(queue, cjob[c])
            /\ cpc' = [cpc EXCEPT ![c] = "idle"]
            /\ cjob' = [cjob EXCEPT ![c] = 0]
    /\ UNCHANGED <<queueVars, queryVars, syncVars,
                   storeVars, jobs, running_count, running_lock, shutdown,
                   handlers, workerVars, nextId>>

\* Mutant: the except clause raises without deleting the record.
MutEnqueueFullKeeps(c) ==
    /\ cpc[c] = "full"
    /\ cpc' = [cpc EXCEPT ![c] = "idle"]
    /\ cjob' = [cjob EXCEPT ![c] = 0]
    /\ UNCHANGED <<queueVars, queryVars, syncVars,
                   storeVars, queue, jobs, running_count, running_lock,
                   shutdown, handlers, workerVars, nextId>>

\* except queue.Full: del self._jobs[job_id] under _jobs_lock, then raise.
EnqueueFull(c) ==
    /\ cpc[c] = "full"
    /\ jobs' = [j \in DOMAIN jobs \ {cjob[c]} |-> jobs[j]]
    /\ cpc' = [cpc EXCEPT ![c] = "idle"]
    /\ cjob' = [cjob EXCEPT ![c] = 0]
    /\ UNCHANGED <<queueVars, queryVars, syncVars,
                   storeVars, queue, running_count, running_lock, shutdown,
                   handlers, workerVars, nextId>>

\* get_status(job_id): self._jobs.get(job_id) under _jobs_lock.
\* The Optional[Job] is a sequence: <<>> is None, <<job>> is the Job.
get_status(job_id) ==
    IF job_id \in DOMAIN jobs THEN <<jobs[job_id]>> ELSE <<>>

\* A status query: it returns get_status(job_id) and changes nothing.
GetStatus(job_id) ==
    /\ Len(get_status(job_id)) \in {0, 1}
    /\ UNCHANGED vars

\* ------------------------------------------------------------ _worker_loop
Goto(w, label) == wpc' = [wpc EXCEPT ![w] = label]

\* while not self._shutdown
WorkerLoopTest(w) ==
    /\ wpc[w] = "loop"
    /\ Goto(w, IF shutdown THEN "exit" ELSE "get")
    /\ UNCHANGED <<queueVars, queryVars, syncVars,
                   storeVars, queue, jobs, running_count, running_lock,
                   shutdown, handlers, wjob, wloc, clientVars>>

\* Mutant: the worker takes the id put last (a LIFO queue).
MutWorkerGetLast(w) ==
    /\ wpc[w] = "get"
    /\ IF queue # <<>>
       THEN /\ wjob' = [wjob EXCEPT ![w] = queue[Len(queue)]]
            /\ queue' = SubSeq(queue, 1, Len(queue) - 1)
            /\ Goto(w, "acquire")
       ELSE /\ Goto(w, "loop")
            /\ UNCHANGED <<queue, wjob>>
    /\ UNCHANGED <<queueVars, queryVars, syncVars,
                   storeVars, jobs, running_count, running_lock, shutdown,
                   handlers, wloc, clientVars>>

\* job_id = self._queue.get(timeout=1.0); on queue.Empty: continue
WorkerGet(w) ==
    /\ wpc[w] = "get"
    /\ IF queue # <<>>
       THEN /\ wjob' = [wjob EXCEPT ![w] = Head(queue)]
            /\ queue' = Tail(queue)
            /\ Goto(w, "acquire")
       ELSE /\ Goto(w, "loop")
            /\ UNCHANGED <<queue, wjob>>
    /\ UNCHANGED <<queueVars, queryVars, syncVars,
                   storeVars, jobs, running_count, running_lock, shutdown,
                   handlers, wloc, clientVars>>

\* with self._running_lock: (entry)
WorkerAcquire(w) ==
    /\ wpc[w] = "acquire"
    /\ running_lock = Free
    /\ running_lock' = w
    /\ Goto(w, "check")
    /\ UNCHANGED <<queueVars, queryVars, syncVars,
                   storeVars, queue, jobs, running_count, shutdown, handlers,
                   wjob, wloc, clientVars>>

\* while self._running_count >= self.max_concurrent: time.sleep(0.5)
\* (the test succeeds and the thread goes to sleep, the lock still held)
WorkerSleep(w) ==
    /\ wpc[w] = "check"
    /\ AtLimit
    /\ Goto(w, "sleep")
    /\ UNCHANGED <<queueVars, queryVars, syncVars,
                   storeVars, queue, jobs, running_count, running_lock,
                   shutdown, handlers, wjob, wloc, clientVars>>

\* time.sleep(0.5) returns and the loop tests the count again.
WorkerWake(w) ==
    /\ wpc[w] = "sleep"
    /\ Goto(w, "check")
    /\ UNCHANGED <<queueVars, queryVars, syncVars,
                   storeVars, queue, jobs, running_count, running_lock,
                   shutdown, handlers, wjob, wloc, clientVars>>

\* self._running_count += 1, and the lock is released on leaving the with.
WorkerAdmit(w) ==
    /\ wpc[w] = "check"
    /\ ~AtLimit
    /\ running_count' = running_count + 1
    /\ running_lock' = Free
    /\ Goto(w, "pj_get")
    /\ UNCHANGED <<queueVars, queryVars, syncVars,
                   storeVars, queue, jobs, shutdown, handlers, wjob, wloc,
                   clientVars>>

\* Mutant: the exception of a failed job leaves _process_job, so the finally
\* clause runs and the thread then dies.
MutReleaseThenDie(w) ==
    /\ wpc[w] = "release"
    /\ running_lock = Free
    /\ running_count' = running_count - 1
    /\ wjob' = [wjob EXCEPT ![w] = 0]
    /\ wloc' = [wloc EXCEPT ![w] = NoLocals]
    /\ Goto(w, IF wloc[w].e # NoneMsg THEN "exit" ELSE "loop")
    /\ UNCHANGED <<queueVars, queryVars, syncVars,
                   storeVars, queue, jobs, running_lock, shutdown, handlers,
                   clientVars>>

\* Mutant: a finished job's record is dropped from the job map.
MutReleaseForgetsJob(w) ==
    /\ wpc[w] = "release"
    /\ running_lock = Free
    /\ running_count' = running_count - 1
    /\ jobs' = [j \in DOMAIN jobs \ {wjob[w]} |-> jobs[j]]
    /\ wjob' = [wjob EXCEPT ![w] = 0]
    /\ wloc' = [wloc EXCEPT ![w] = NoLocals]
    /\ Goto(w, "loop")
    /\ UNCHANGED <<queueVars, queryVars, syncVars,
                   storeVars, queue, running_lock, shutdown, handlers,
                   clientVars>>

\* finally: with self._running_lock: self._running_count -= 1
\*          self._queue.task_done()
WorkerRelease(w) ==
    /\ wpc[w] = "release"
    /\ running_lock = Free
    /\ running_count' = running_count - 1
    /\ wjob' = [wjob EXCEPT ![w] = 0]
    /\ wloc' = [wloc EXCEPT ![w] = NoLocals]
    /\ Goto(w, "loop")
    /\ UNCHANGED <<queueVars, queryVars, syncVars,
                   storeVars, queue, jobs, running_lock, shutdown, handlers,
                   clientVars>>


\* ------------------------------------------------------------ _process_job
\* A step of worker w that writes jobs (through its reference to the Job).
JobStep(w, from, to, newJobs) ==
    /\ wpc[w] = from
    /\ jobs' = newJobs
    /\ Goto(w, to)
    /\ UNCHANGED <<queueVars, queryVars, syncVars,
                   storeVars, queue, running_count, running_lock, shutdown,
                   handlers, wjob, wloc, clientVars>>

\* with self._jobs_lock: job = self._jobs.get(job_id); if not job: return
ProcessGetJob(w) ==
    /\ wpc[w] = "pj_get"
    /\ Goto(w, IF get_status(wjob[w]) = <<>> THEN "release" ELSE "set_running")
    /\ UNCHANGED <<queueVars, queryVars, syncVars,
                   storeVars, queue, jobs, running_count, running_lock,
                   shutdown, handlers, wjob, wloc, clientVars>>

\* job.status = JobStatus.RUNNING
ProcessSetRunning(w) ==
    JobStep(w, "set_running", "set_started", SetField(wjob[w], "status", RUNNING))

\* job.started_at = datetime.utcnow()
ProcessSetStarted(w) ==
    JobStep(w, "set_started", "lookup", SetField(wjob[w], "started_at", UtcNow))

\* Mutant: the handler was resolved when the job was enqueued, before any
\* registration, so the lookup finds none.
MutLookupAtEnqueue(w) ==
    /\ wpc[w] = "lookup"
    /\ Goto(w, "err_status")
    /\ wloc' = [wloc EXCEPT ![w].e = NoHandlerMessage(jobs[wjob[w]].type)]
    /\ UNCHANGED <<queueVars, queryVars, syncVars,
                   storeVars, queue, jobs, running_count, running_lock,
                   shutdown, handlers, wjob, clientVars>>

\* handler = self._handlers.get(job.type); if not handler: raise Exception(...)
ProcessLookup(w) ==
    /\ wpc[w] = "lookup"
    /\ IF jobs[wjob[w]].type \in handlers
       THEN /\ Goto(w, "handler")
            /\ UNCHANGED wloc
       ELSE /\ Goto(w, "err_status")
            /\ wloc' = [wloc EXCEPT ![w].e = NoHandlerMessage(jobs[wjob[w]].type)]
    /\ UNCHANGED <<queueVars, queryVars, syncVars,
                   storeVars, queue, jobs, running_count, running_lock,
                   shutdown, handlers, wjob, clientVars>>

\* The handler calls update_progress(progress, message): job.progress = progress
HandlerReport(w, progress) ==
    /\ wpc[w] = "handler"
    /\ wloc[w].reports < MaxReports
    /\ jobs' = SetField(wjob[w], "progress", progress)
    /\ wloc' = [wloc EXCEPT ![w].reports = @ + 1, ![w].last = progress,
                            ![w].message = HandlerMessage]
    /\ Goto(w, "report_message")
    /\ UNCHANGED <<queueVars, queryVars, syncVars,
                   storeVars, queue, running_count, running_lock, shutdown,
                   handlers, wjob, clientVars>>

\* update_progress, second assignment: job.progress_message = message
HandlerReportMessage(w) ==
    JobStep(w, "report_message", "handler",
            SetField(wjob[w], "progress_message", wloc[w].message))

\* result = handler(job.params, update_progress): the handler returns a value,
\* its own params (an echo) or some other dict.
HandlerReturn(w, value) ==
    /\ wpc[w] = "handler"
    /\ value \in HandlerDicts \cup {jobs[wjob[w]].params}
    /\ wloc' = [wloc EXCEPT ![w].result = value]
    /\ Goto(w, "done_status")
    /\ UNCHANGED <<queueVars, queryVars, syncVars,
                   storeVars, queue, jobs, running_count, running_lock,
                   shutdown, handlers, wjob, clientVars>>

\* The handler raises an Exception, caught by except Exception as e.
HandlerRaise(w, e) ==
    /\ wpc[w] = "handler"
    /\ wloc' = [wloc EXCEPT ![w].e = e]
    /\ Goto(w, "err_status")
    /\ UNCHANGED <<queueVars, queryVars, syncVars,
                   storeVars, queue, jobs, running_count, running_lock,
                   shutdown, handlers, wjob, clientVars>>

\* job.status = JobStatus.DONE
ProcessDoneStatus(w) ==
    JobStep(w, "done_status", "done_completed", SetField(wjob[w], "status", DONE))

\* Mutant: the statement after job.status = DONE raises, so the except
\* clause runs for a job that is already DONE.
MutDoneCompletedRaises(w) ==
    /\ wpc[w] = "done_completed"
    /\ wloc' = [wloc EXCEPT ![w].e = <<"boom">>]
    /\ Goto(w, "err_status")
    /\ UNCHANGED <<queueVars, queryVars, syncVars,
                   storeVars, queue, jobs, running_count, running_lock,
                   shutdown, handlers, wjob, clientVars>>

\* job.completed_at = datetime.utcnow()
ProcessDoneCompleted(w) ==
    JobStep(w, "done_completed", "done_progress",
            SetField(wjob[w], "completed_at", UtcNow))

\* Mutant: the DONE path leaves progress at what the handler last reported.
MutDoneProgressKept(w) ==
    JobStep(w, "done_progress", "done_result", jobs)

\* Mutant: the DONE path starts progress over at 0.0.
MutDoneProgressZero(w) ==
    JobStep(w, "done_progress", "done_result",
            SetField(wjob[w], "progress", ProgressZero))

\* job.progress = 1.0
ProcessDoneProgress(w) ==
    JobStep(w, "done_progress", "done_result",
            SetField(wjob[w], "progress", ProgressOne))

\* job.result = result
ProcessDoneResult(w) ==
    JobStep(w, "done_result", "release",
            SetField(wjob[w], "result", wloc[w].result))

\* Mutant: the except clause leaves the status as it found it.
MutErrorKeepsStatus(w) ==
    JobStep(w, "err_status", "err_completed", jobs)

\* job.status = JobStatus.ERROR
ProcessErrorStatus(w) ==
    JobStep(w, "err_status", "err_completed", SetField(wjob[w], "status", ERROR))

\* Mutant: the ERROR path also resets progress to 0.0.
MutErrorResetsProgress(w) ==
    JobStep(w, "err_completed", "err_error",
            [jobs EXCEPT ![wjob[w]].completed_at = UtcNow,
                         ![wjob[w]].progress = ProgressZero])

\* job.completed_at = datetime.utcnow()
ProcessErrorCompleted(w) ==
    JobStep(w, "err_completed", "err_error",
            SetField(wjob[w], "completed_at", UtcNow))

\* job.error = str(e)
ProcessErrorError(w) ==
    JobStep(w, "err_error", "err_message",
            SetField(wjob[w], "error", StrOf(wloc[w].e)))

\* Mutant: a failed job is put back on the queue for another try.
MutErrorRequeues(w) ==
    /\ wpc[w] = "err_message"
    /\ jobs' = SetField(wjob[w], "progress_message", FormatExc)
    /\ queue' = Append(queue, wjob[w])
    /\ Goto(w, "release")
    /\ UNCHANGED <<queueVars, queryVars, syncVars,
                   storeVars, running_count, running_lock, shutdown,
                   handlers, wjob, wloc, clientVars>>

\* job.progress_message = traceback.format_exc()
ProcessErrorMessage(w) ==
    JobStep(w, "err_message", "release",
            SetField(wjob[w], "progress_message", FormatExc))

\* -------------------------------------------------------- process_document
\* The files submitted for ingestion: params['filename'] and the bytes found
\* at params['file_path'].
DocParams ==
    {[filename |-> "a.pdf", content |-> "bytesA"],
     [filename |-> "copy.pdf", content |-> "bytesA"],
     [filename |-> "b.pdf", content |-> "bytesB"]}

\* compute_file_hash: the SHA-256 hex digest of the file's bytes; it does not
\* depend on the file name, and different bytes have different digests.
compute_file_hash(params) ==
    IF params.content = "bytesA" THEN "sha256-A" ELSE "sha256-B"

\* The digests of the bytes a file can hold.
FileHashes == {compute_file_hash(p) : p \in DocParams}

\* Progress checkpoints of process_document, in tenths.
CheckpointHash == 1
CheckpointExtract == 3
CheckpointEntities == 6
CheckpointEmbeddings == 8
CheckpointStore == 9

\* What TextExtractor().extract may return, as sequences of characters: some
\* text, whitespace only, or nothing ('' and None are alike to the test that
\* follows); and what importing or running it may raise.
TextOutcomes == {<<"a", " ">>, <<" ", " ">>, <<>>}
ExtractErrors == {<<"No module named 'text_extractor'">>}

\* str.strip(): the text without its leading and trailing whitespace.
RECURSIVE LStrip(_)
LStrip(text) ==
    IF text # <<>> /\ Head(text) = " " THEN LStrip(Tail(text)) ELSE text
RECURSIVE RStrip(_)
RStrip(text) ==
    IF text # <<>> /\ text[Len(text)] = " "
    THEN RStrip(SubSeq(text, 1, Len(text) - 1))
    ELSE text
Strip(text) == RStrip(LStrip(text))

\* Mutant: only the empty text counts as no text (no strip).
MutNoTextEmptyOnly(text) == text = <<>>

\* not text_content or len(text_content.strip()) == 0
NoText(text) == text = <<>> \/ Len(Strip(text)) = 0

\* What entity_manager.extract_entities may return, as the set of the dict's
\* keys (an empty dict has none), and what the call may raise: as the class
\* in entity_manager.py defines no such method, an AttributeError.
EntityResults == {{"entities", "people"}, {}}
EntityErrors ==
    {<<"'EntityManager' object has no attribute 'extract_entities'">>}

\* What an insert into a table may raise.
StoreErrors == {<<"connection lost">>}

\* f"Failed to store document in database: {str(e)}"
StoreFailedMessage(e) == <<"Failed to store document in database: ">> \o e

\* Worker w runs process_document and is at position stage of it.
AtStage(w, stage) ==
    /\ wpc[w] = "handler"
    /\ jobs[wjob[w]].type = "process_document"
    /\ wloc[w].stage = stage

\* update_progress(progress, message) called at position from: the first
\* assignment, job.progress = progress.
PipelineReport(w, from, to, progress, message) ==
    /\ AtStage(w, from)
    /\ jobs' = SetField(wjob[w], "progress", progress)
    /\ wloc' = [wloc EXCEPT ![w].reports = @ + 1, ![w].last = progress,
                            ![w].message = message, ![w].stage = to]
    /\ Goto(w, "report_message")
    /\ UNCHANGED <<queueVars, queryVars, syncVars,
                   storeVars, queue, running_count, running_lock,
                   shutdown, handlers, wjob, clientVars>>

\* A step of process_document that only changes its locals.
PipelineLocal(w, from, newLocals) ==
    /\ AtStage(w, from)
    /\ wloc' = [wloc EXCEPT ![w] = newLocals]
    /\ UNCHANGED <<queueVars, queryVars, syncVars,
                   storeVars, queue, jobs, running_count,
                   running_lock, shutdown, handlers, wpc, wjob, clientVars>>

\* process_document raises e, caught by except Exception as e in _process_job.
PipelineRaise(w, from, e) ==
    /\ AtStage(w, from)
    /\ wloc' = [wloc EXCEPT ![w].e = e]
    /\ Goto(w, "err_status")
    /\ UNCHANGED <<queueVars, queryVars, syncVars,
                   storeVars, queue, jobs, running_count,
                   running_lock, shutdown, handlers, wjob, clientVars>>

\* process_document returns result.
PipelineReturn(w, from, result) ==
    /\ AtStage(w, from)
    /\ wloc' = [wloc EXCEPT ![w].result = result]
    /\ Goto(w, "done_status")
    /\ UNCHANGED <<queueVars, queryVars, syncVars,
                   storeVars, queue, jobs, running_count,
                   running_lock, shutdown, handlers, wjob, clientVars>>

\* update_progress(0.1, "Computing file hash...")
ReportHash(w) ==
    PipelineReport(w, "start", "hash", CheckpointHash, "Computing file hash...")

\* file_hash = self.compute_file_hash(file_path)
ComputeHash(w) ==
    PipelineLocal(w, "hash",
        [wloc[w] EXCEPT !.file_hash = compute_file_hash(jobs[wjob[w]].params),
                        !.stage = "check"])

\* A row of table "documents" has this file_hash.
HasDocument(file_hash) ==
    \E i \in 1..Len(documents) : documents[i].file_hash = file_hash

\* check_duplicate(file_hash): False without a database client and when the
\* query raises (bare except), or else whether the select finds a row.
check_duplicate(file_hash, queryRaises) ==
    IF ~supabase THEN FALSE
    ELSE IF queryRaises THEN FALSE
    ELSE HasDocument(file_hash)

\* if self.check_duplicate(file_hash):
CheckDuplicate(w, queryRaises) ==
    /\ queryRaises => supabase
    /\ PipelineLocal(w, "check",
           [wloc[w] EXCEPT !.stage =
                IF check_duplicate(wloc[w].file_hash, queryRaises)
                THEN "duplicate" ELSE "report_extract"])

\* update_progress(1.0, "Document already exists (duplicate)")
ReportDuplicate(w) ==
    PipelineReport(w, "duplicate", "return_duplicate", ProgressOne,
                   "Document already exists (duplicate)")

\* Mutant: a duplicate is reported as a failure of the job.
MutDuplicateRaises(w) ==
    PipelineRaise(w, "return_duplicate",
                  <<"Document with this hash already exists">>)

\* return {'status': 'duplicate', 'file_hash': file_hash, 'message': ...}
ReturnDuplicate(w) ==
    PipelineReturn(w, "return_duplicate",
        [status |-> "duplicate", file_hash |-> wloc[w].file_hash,
         message |-> "Document with this hash already exists"])

\* update_progress(0.3, "Extracting text...")
ReportExtract(w) ==
    PipelineReport(w, "report_extract", "extract", CheckpointExtract,
                   "Extracting text...")

\* Exception("Failed to extract text from document")
NoTextError == <<"Failed to extract text from document">>

\* text_content = extractor.extract(file_path), and the test of the text:
\* raise Exception("Failed to extract text from document")
ExtractText(w, text) ==
    IF NoText(text)
    THEN PipelineRaise(w, "extract", NoTextError)
    ELSE PipelineLocal(w, "extract",
             [wloc[w] EXCEPT !.text_content = text, !.stage = "report_entities"])

\* from text_extractor import TextExtractor, or the extraction, raises.
ExtractTextRaises(w, e) ==
    PipelineRaise(w, "extract", e)

\* update_progress(0.6, "Extracting entities...")
ReportEntities(w) ==
    PipelineReport(w, "report_entities", "entities", CheckpointEntities,
                   "Extracting entities...")

\* entities = self.entity_manager.extract_entities(text_content)
ExtractEntities(w, entities) ==
    PipelineLocal(w, "entities",
        [wloc[w] EXCEPT !.entities = entities, !.stage = "report_embeddings"])

\* The call of extract_entities raises; nothing around it catches.
ExtractEntitiesRaises(w, e) ==
    PipelineRaise(w, "entities", e)

\* update_progress(0.8, "Generating embeddings..."); no embedding is made.
ReportEmbeddings(w) ==
    PipelineReport(w, "report_embeddings", "report_store",
                   CheckpointEmbeddings, "Generating embeddings...")

\* update_progress(0.9, "Storing in database...")
ReportStore(w) ==
    PipelineReport(w, "report_store", "store", CheckpointStore,
                   "Storing in database...")

\* The row inserted for a document; the database numbers the rows.
DocumentRow(params, file_hash) ==
    [id |-> Len(documents) + 1, filename |-> params.filename,
     file_hash |-> file_hash]

\* doc_result = self.supabase.table("documents").insert(doc_data).execute()
\* document_id = doc_result.data[0]['id']
InsertDocument(w) ==
    /\ AtStage(w, "store")
    /\ supabase
    /\ documents' =
           Append(documents, DocumentRow(jobs[wjob[w]].params, wloc[w].file_hash))
    /\ wloc' = [wloc EXCEPT ![w].document_id = Len(documents) + 1,
                            ![w].stage = "metadata"]
    /\ UNCHANGED <<queueVars, queryVars, syncVars,
                   supabase, document_metadata, queue, jobs,
                   running_count, running_lock, shutdown, handlers, wpc, wjob,
                   clientVars>>

\* The insert of the document raises: except Exception as e: raise
\* Exception(f"Failed to store document in database: {str(e)}")
InsertDocumentRaises(w, e) ==
    /\ supabase
    /\ PipelineRaise(w, "store", StoreFailedMessage(e))

\* "local_" + file_hash[:8]
LocalId(file_hash) == <<"local_", file_hash>>

\* else: document_id = "local_" + file_hash[:8] (no database)
NoDatabase(w) ==
    /\ ~supabase
    /\ PipelineLocal(w, "store",
           [wloc[w] EXCEPT !.document_id = LocalId(wloc[w].file_hash),
                           !.stage = "report_complete"])

\* if entities and 'entities' in entities
HasEntities(entities) == entities # {} /\ "entities" \in entities

\* self.supabase.table("document_metadata").insert(entity_data).execute(),
\* skipped when there are no entities.
InsertMetadata(w) ==
    /\ AtStage(w, "metadata")
    /\ document_metadata' =
           IF HasEntities(wloc[w].entities)
           THEN Append(document_metadata, [document_id |-> wloc[w].document_id])
           ELSE document_metadata
    /\ wloc' = [wloc EXCEPT ![w].stage = "report_complete"]
    /\ UNCHANGED <<queueVars, queryVars, syncVars,
                   supabase, documents, queue, jobs, running_count,
                   running_lock, shutdown, handlers, wpc, wjob, clientVars>>

\* InsertMetadataRaises with a rollback that deletes the document row just
\* inserted before the exception is raised again.
MutMetadataRaisesRollback(w, e) ==
    /\ HasEntities(wloc[w].entities)
    /\ AtStage(w, "metadata")
    /\ documents' = SubSeq(documents, 1, Len(documents) - 1)
    /\ wloc' = [wloc EXCEPT ![w].e = StoreFailedMessage(e)]
    /\ Goto(w, "err_status")
    /\ UNCHANGED <<queueVars, queryVars, syncVars,
                   supabase, document_metadata, queue, jobs,
                   running_count, running_lock, shutdown, handlers, wjob,
                   clientVars>>

\* The insert of the entity metadata raises, the document row already
\* written: the same except clause.
InsertMetadataRaises(w, e) ==
    /\ HasEntities(wloc[w].entities)
    /\ PipelineRaise(w, "metadata", StoreFailedMessage(e))

\* update_progress(1.0, "Processing complete")
ReportComplete(w) ==
    PipelineReport(w, "report_complete", "return_success", ProgressOne,
                   "Processing complete")

\* return {'status': 'success', 'document_id': ..., 'file_hash': ...,
\*         'text_length': len(text_content), ...}
ReturnSuccess(w) ==
    PipelineReturn(w, "return_success",
        [status |-> "success", document_id |-> wloc[w].document_id,
         file_hash |-> wloc[w].file_hash,
         text_length |-> Len(wloc[w].text_content)])

\* Every step of process_document.
ProcessDocument(w) ==
    \/ ReportHash(w)
    \/ ComputeHash(w)
    \/ \E queryRaises \in BOOLEAN : CheckDuplicate(w, queryRaises)
    \/ ReportDuplicate(w)
    \/ ReturnDuplicate(w)
    \/ ReportExtract(w)
    \/ \E text \in TextOutcomes : ExtractText(w, text)
    \/ \E e \in ExtractErrors : ExtractTextRaises(w, e)
    \/ ReportEntities(w)
    \/ \E entities \in EntityResults : ExtractEntities(w, entities)
    \/ \E e \in EntityErrors : ExtractEntitiesRaises(w, e)
    \/ ReportEmbeddings(w)
    \/ ReportStore(w)
    \/ InsertDocument(w)
    \/ \E e \in StoreErrors : InsertDocumentRaises(w, e)
    \/ NoDatabase(w)
    \/ InsertMetadata(w)
    \/ \E e \in StoreErrors : InsertMetadataRaises(w, e)
    \/ ReportComplete(w)
    \/ ReturnSuccess(w)

\* ---------------------------------------------------- sync_onedrive_folder
MaxFiles == 2         \* files in the listed folder

\* Progress fractions of sync_onedrive_folder, in thousandths.
SyncInitializing == 100
SyncListing == 200
SyncLoopSpan == 700
SyncComplete == 1000

\* The names of the files of a OneDrive folder.
FileNames == {p.filename : p \in DocParams}

\* What onedrive.list_files(folder_path) can return: the files of the
\* folder, none ([] also for a status other than 200).
FileLists ==
    UNION {{files \in [1..n -> FileNames] :
                \A a, b \in 1..n : a # b => files[a] # files[b]} :
           n \in 0..MaxFiles}

\* os.remove(path) takes a str, bytes or os.PathLike and raises TypeError for
\* any other argument, a bool included.
RemoveRaises(path) == path \in BOOLEAN

\* except Exception as e (the inner one): error_count += 1, print, continue.
SyncExcept(locals) ==
    [locals EXCEPT !.error_count = @ + 1, !.i = @ + 1, !.pc = "loop"]

\* A step of sync_onedrive_folder that leaves the database alone.
SyncStep(from, newSync, newDisk) ==
    /\ sync.pc = from
    /\ sync' = newSync
    /\ disk' = newDisk
    /\ UNCHANGED <<engineVars, storeVars, queryVars>>

\* sync_onedrive_folder(params, update_progress) is called:
\* update_progress(0.1, "Initializing OneDrive sync ...")
SyncCall ==
    SyncStep("off", [sync EXCEPT !.pc = "init", !.progress = SyncInitializing],
             disk)

\* onedrive = OneDriveManager(); update_progress(0.2, "Listing OneDrive
\* files...")
SyncInit ==
    SyncStep("init", [sync EXCEPT !.pc = "list", !.progress = SyncListing],
             disk)

\* except Exception as e (the outer one): update_progress(1.0, "OneDrive
\* sync failed: ..."), raise Exception(...)
SyncFailed(locals) ==
    [locals EXCEPT !.pc = "done", !.progress = SyncComplete, !.raised = TRUE]

\* The import or OneDriveManager() raises.
SyncInitRaises == SyncStep("init", SyncFailed(sync), disk)

\* files = onedrive.list_files(folder_path); if not files:
\* update_progress(1.0, ...) and return with files_found 0.
SyncListFiles(files) ==
    SyncStep("list",
        IF files = <<>>
        THEN [sync EXCEPT !.pc = "done", !.progress = SyncComplete,
                          !.result = <<[status |-> "success",
                                        files_found |-> 0,
                                        files_processed |-> 0,
                                        files_skipped |-> 0,
                                        files_errors |-> 0]>>]
        ELSE [sync EXCEPT !.pc = "loop", !.files = files, !.i = 1],
        disk)

\* list_files raises (the request fails).
SyncListFilesRaises == SyncStep("list", SyncFailed(sync), disk)

\* for i, file_info in enumerate(files): progress = 0.2 + 0.7 * (i /
\* total_files), update_progress(progress, ...); after the last file:
\* update_progress(1.0, "Sync complete: ...") and return the counts.
SyncLoop ==
    SyncStep("loop",
        IF sync.i <= Len(sync.files)
        THEN [sync EXCEPT !.pc = "download",
                          !.progress = SyncListing +
                              (SyncLoopSpan * (sync.i - 1)) \div Len(sync.files)]
        ELSE [sync EXCEPT !.pc = "done", !.progress = SyncComplete,
                          !.result = <<[status |-> "success",
                                        files_found |-> Len(sync.files),
                                        files_processed |-> sync.processed_count,
                                        files_skipped |-> sync.skipped_count,
                                        files_errors |-> sync.error_count]>>],
        disk)

\* local_path = onedrive.download_file(file_id, file_name): download_file
\* (onedrive_manager.py) writes the content to the file named by its second
\* argument, file_name, and returns True, or returns False for a status
\* other than 200. local_path is that bool.
SyncDownload(ok) ==
    SyncStep("download", [sync EXCEPT !.pc = "hash", !.local_path = ok],
             IF ok THEN disk \cup {sync.files[sync.i]} ELSE disk)

\* download_file raises (the request fails) before a file is written.
SyncDownloadRaises == SyncStep("download", SyncExcept(sync), disk)

\* file_hash = self.compute_file_hash(local_path): open(local_path, 'rb')
\* with a bool opens file descriptor 1 or 0, not the downloaded file; what
\* is read there, if anything, is up to the process's environment.
SyncComputeHash(file_hash) ==
    SyncStep("hash", [sync EXCEPT !.pc = "check", !.file_hash = file_hash],
             disk)

\* Reading the file descriptor raises.
SyncComputeHashRaises == SyncStep("hash", SyncExcept(sync), disk)

\* if self.check_duplicate(file_hash): skipped_count += 1
SyncCheckDuplicate(queryRaises) ==
    /\ queryRaises => supabase
    /\ SyncStep("check",
           IF check_duplicate(sync.file_hash, queryRaises)
           THEN [sync EXCEPT !.pc = "remove_duplicate", !.skipped_count = @ + 1]
           ELSE [sync EXCEPT !.pc = "process"],
           disk)

\* os.remove(local_path)  # Clean up; continue
SyncRemoveDuplicate ==
    SyncStep("remove_duplicate",
        IF RemoveRaises(sync.local_path) THEN SyncExcept(sync)
        ELSE [sync EXCEPT !.i = @ + 1, !.pc = "loop"],
        IF RemoveRaises(sync.local_path) THEN disk
        ELSE disk \ {sync.local_path})

\* result = self.process_document(doc_params, doc_progress) returns: with
\* status "success" after it stored the document (a row with a database),
\* or with status "duplicate".
SyncProcessDocument(status) ==
    /\ sync.pc = "process"
    /\ status \in {"success", "duplicate"}
    /\ status = "duplicate" => supabase /\ documents # <<>>
    /\ documents' =
           IF status = "success" /\ supabase
           THEN Append(documents,
                       [id |-> Len(documents) + 1,
                        filename |-> sync.files[sync.i],
                        file_hash |-> sync.file_hash])
           ELSE documents
    /\ sync' = [sync EXCEPT !.pc = "remove",
                            !.result = <<[status |-> status]>>]
    /\ UNCHANGED <<engineVars, queryVars, supabase, document_metadata, disk>>

\* process_document raises (no text, a failed extraction, a failed insert).
SyncProcessDocumentRaises == SyncStep("process", SyncExcept(sync), disk)

\* os.remove(local_path)  # Clean up downloaded file; then processed_count
\* += 1 for status 'success', else skipped_count += 1.
SyncRemove ==
    SyncStep("remove",
        IF RemoveRaises(sync.local_path) THEN SyncExcept(sync)
        ELSE IF sync.result[1].status = "success"
        THEN [sync EXCEPT !.processed_count = @ + 1, !.i = @ + 1,
                          !.pc = "loop"]
        ELSE [sync EXCEPT !.skipped_count = @ + 1, !.i = @ + 1, !.pc = "loop"],
        IF RemoveRaises(sync.local_path) THEN disk
        ELSE disk \ {sync.local_path})

\* Every step of a run of sync_onedrive_folder.
SyncOneDriveFolder ==
    \/ SyncCall
    \/ SyncInit
    \/ SyncInitRaises
    \/ \E files \in FileLists : SyncListFiles(files)
    \/ SyncListFilesRaises
    \/ SyncLoop
    \/ \E ok \in BOOLEAN : SyncDownload(ok)
    \/ SyncDownloadRaises
    \/ \E file_hash \in FileHashes : SyncComputeHash(file_hash)
    \/ SyncComputeHashRaises
    \/ \E queryRaises \in BOOLEAN : SyncCheckDuplicate(queryRaises)
    \/ SyncRemoveDuplicate
    \/ \E status \in {"success", "duplicate"} : SyncProcessDocument(status)
    \/ SyncProcessDocumentRaises
    \/ SyncRemove

\* ------------------------------------------------------- requests (main.py)
\* The mutable fields of a Job, in the order get_job_status reads them into
\* the dict it returns.
ResponseFields ==
    <<"status", "progress", "progress_message", "started_at", "completed_at",
      "result", "error">>

\* The position after the read of ResponseFields[i].
AfterRead(i) ==
    IF i = Len(ResponseFields) THEN "return" ELSE ResponseFields[i + 1]

\* job.<fld> on the Job object the request got from get_status: the object of
\* the job map, or, once enqueue has deleted a rejected record, the object as
\* enqueue created it (no worker ever gets a rejected id).
JobField(job_id, fld) ==
    IF job_id \in DOMAIN jobs THEN jobs[job_id][fld]
    ELSE Job("", "")[fld]

\* job = job_queue.get_status(job_id); if not job: raise HTTPException(404)
GetJobStatus(job_id) ==
    /\ qpc = "idle"
    /\ IF get_status(job_id) = <<>>
       THEN UNCHANGED <<qpc, qjob, response>>
       ELSE /\ qpc' = ResponseFields[1]
            /\ qjob' = job_id
            /\ response' = <<>>
    /\ UNCHANGED <<engineVars, storeVars, syncVars, stats_pc>>

\* '<fld>': job.<fld>, one entry of the dict after the other, with
\* _jobs_lock released since get_status returned.
GetJobStatusRead(i) ==
    /\ qpc = ResponseFields[i]
    /\ response' =
           response @@ (ResponseFields[i] :> JobField(qjob, ResponseFields[i]))
    /\ qpc' = AfterRead(i)
    /\ UNCHANGED <<engineVars, storeVars, syncVars, stats_pc, qjob>>

\* return {...}: the response is sent.
GetJobStatusReturn ==
    /\ qpc = "return"
    /\ qpc' = "idle"
    /\ qjob' = 0
    /\ response' = <<>>
    /\ UNCHANGED <<engineVars, storeVars, syncVars, stats_pc>>

\* Every step of a status request.
StatusRequest ==
    \/ \E j \in JobIds : GetJobStatus(j)
    \/ \E i \in 1..Len(ResponseFields) : GetJobStatusRead(i)
    \/ GetJobStatusReturn

\* get_queue_stats: 'queue_depth': job_queue.get_queue_depth() is read, and
\* get_running_count() is called.
GetQueueStats ==
    /\ stats_pc = "idle"
    /\ stats_pc' = "get_running_count"
    /\ UNCHANGED <<engineVars, storeVars, syncVars, qpc, qjob, response>>

\* get_running_count(): with self._running_lock: return self._running_count.
\* The call waits until the lock is free; taking it, reading the counter and
\* giving it back is one step.
GetRunningCount ==
    /\ stats_pc = "get_running_count"
    /\ running_lock = Free
    /\ stats_pc' = "idle"
    /\ UNCHANGED <<engineVars, storeVars, syncVars, qpc, qjob, response>>

\* --------------------------------------------------------------------- Next
\* Every step of _worker_loop and _process_job around the handler call, but
\* for the turns of the wait loop; the second assignment of update_progress
\* is the same for every handler.
WorkerEngine(w) ==
    \/ WorkerLoopTest(w)
    \/ WorkerGet(w)
    \/ WorkerAcquire(w)
    \/ WorkerAdmit(w)
    \/ ProcessGetJob(w)
    \/ ProcessSetRunning(w)
    \/ ProcessSetStarted(w)
    \/ ProcessLookup(w)
    \/ HandlerReportMessage(w)
    \/ ProcessDoneStatus(w)
    \/ ProcessDoneCompleted(w)
    \/ ProcessDoneProgress(w)
    \/ ProcessDoneResult(w)
    \/ ProcessErrorStatus(w)
    \/ ProcessErrorCompleted(w)
    \/ ProcessErrorError(w)
    \/ ProcessErrorMessage(w)
    \/ WorkerRelease(w)

\* A handler about which nothing is known: it reports fractions out of
\* fractions, returns a value or raises.
HandlerStep(w, fractions) ==
    \/ \E p \in fractions : HandlerReport(w, p)
    \/ \E v \in HandlerDicts \cup Params : HandlerReturn(w, v)
    \/ \E e \in HandlerErrors : HandlerRaise(w, e)

\* Every step a started worker thread can take but for the turns of the wait
\* loop.
WorkerRun(w) ==
    \/ WorkerEngine(w)
    \/ HandlerStep(w, ProgressVals)

\* Every step a started worker thread can take.
WorkerStep(w) ==
    \/ WorkerRun(w)
    \/ WorkerSleep(w)
    \/ WorkerWake(w)

\* Every step of an enqueue call by client thread c, with at most maxCalls
\* calls made over the run.
EnqueueStep(c, maxCalls) ==
    \/ \E t \in JobTypes, p \in Params :
           nextId <= maxCalls /\ EnqueueCreate(c, t, p)
    \/ EnqueuePut(c)
    \/ EnqueueFull(c)

\* The worker threads started so far.
Started == {w \in Workers : wpc[w] # "off"}

\* start_workers calls that start at most maxWorkers threads in total.
StartStep(maxWorkers) ==
    \E n \in 1..maxWorkers :
        Cardinality(Started) + n <= maxWorkers /\ StartWorkers(n)

\* The engine with every operation.
Next ==
    \/ \E t \in RegisteredTypes : RegisterHandler(t)
    \/ StartStep(MaxWorkers)
    \/ Shutdown
    \/ \E c \in Clients : EnqueueStep(c, MaxJobs)
    \/ \E j \in JobIds : GetStatus(j)
    \/ \E w \in Workers : WorkerStep(w)

Spec == Init /\ [][Next]_vars


\* ------------------------------------------------------- other specifications
MaxCalls == 4         \* enqueue calls of the backpressure scenarios

\* No worker is ever started: nothing drains the queue.
NextNoDrain ==
    \/ \E t \in RegisteredTypes : RegisterHandler(t)
    \/ Shutdown
    \/ \E c \in Clients : EnqueueStep(c, MaxCalls)
    \/ \E j \in 1..MaxCalls : GetStatus(j)

NoDrainSpec == Init /\ [][NextNoDrain]_vars

\* One client thread submitting one call after the other, one worker thread.
\* The only worker never finds _running_count at the limit (max_concurrent
\* is at least 1), so the turns of its wait loop are left out.
NextBackpressure ==
    \/ \E t \in RegisteredTypes : RegisterHandler(t)
    \/ StartStep(1)
    \/ Shutdown
    \/ EnqueueStep(1, MaxCalls)
    \/ \E j \in 1..MaxCalls : GetStatus(j)
    \/ WorkerRun(1)

BackpressureSpec == Init /\ [][NextBackpressure]_vars

\* The process as main.py runs it: start_workers is called once, shutdown is
\* never called, and every started thread keeps being scheduled: a step it
\* can take again and again is eventually taken.
NextLive ==
    \/ \E t \in RegisteredTypes : RegisterHandler(t)
    \/ (Started = {} /\ StartStep(MaxWorkers))
    \/ \E c \in Clients : EnqueueStep(c, MaxJobs)
    \/ \E j \in JobIds : GetStatus(j)
    \/ \E w \in Workers : WorkerStep(w)

LiveSpec == Init /\ [][NextLive]_vars /\ \A w \in Workers : SF_vars(WorkerStep(w))

\* The fractions a handler reports in the progress scenarios: 0.4 and 0.7, in
\* any order.
ProgressFractions == {4, 7}

\* One client and one worker, and a handler that reports twice: in rising
\* order, twice the same fraction, or in falling order.
NextProgress ==
    \/ \E t \in RegisteredTypes : RegisterHandler(t)
    \/ StartStep(1)
    \/ EnqueueStep(1, MaxJobs)
    \/ \E j \in JobIds : GetStatus(j)
    \/ WorkerEngine(1)
    \/ HandlerStep(1, ProgressFractions)

ProgressSpec == Init /\ [][NextProgress]_vars

\* Submissions made before any handler is registered: enqueue calls run only
\* while the registry is empty, so every job is enqueued ahead of the
\* registration of its type's handler.
NextLateRegister ==
    \/ \E t \in RegisteredTypes : RegisterHandler(t)
    \/ StartStep(MaxWorkers)
    \/ \E c \in Clients : handlers = {} /\ EnqueueStep(c, MaxJobs)
    \/ \E j \in JobIds : GetStatus(j)
    \/ \E w \in Workers : WorkerStep(w)

LateRegisterSpec == Init /\ [][NextLateRegister]_vars

MaxFifoCalls == 3     \* enqueue calls of the ordering scenario

\* One client thread submitting one call after the other, so ids are accepted
\* in the order they are generated, and every worker thread.
NextFifo ==
    \/ \E t \in RegisteredTypes : RegisterHandler(t)
    \/ StartStep(MaxWorkers)
    \/ EnqueueStep(1, MaxFifoCalls)
    \/ \E j \in 1..MaxFifoCalls : GetStatus(j)
    \/ \E w \in Workers : WorkerStep(w)

FifoSpec == Init /\ [][NextFifo]_vars

\* The process as main.py sets it up: process_document is registered, then
\* the workers are started, then documents are submitted, by one client, and
\* every job runs process_document.
NextPipeline ==
    \/ (handlers = {} /\ RegisterHandler("process_document"))
    \/ (handlers # {} /\ Started = {} /\ StartStep(MaxWorkers))
    \/ \E p \in DocParams :
           /\ Started # {}
           /\ nextId <= MaxJobs
           /\ EnqueueCreate(1, "process_document", p)
    \/ EnqueuePut(1)
    \/ EnqueueFull(1)
    \/ \E j \in JobIds : GetStatus(j)
    \/ \E w \in Workers : WorkerEngine(w)
    \/ \E w \in Workers : WorkerSleep(w)
    \/ \E w \in Workers : WorkerWake(w)
    \/ \E w \in Workers : ProcessDocument(w)

PipelineSpec == Init /\ [][NextPipeline]_vars


\* One client, one worker and status requests made while the jobs run.
NextObserver ==
    \/ \E t \in RegisteredTypes : RegisterHandler(t)
    \/ StartStep(1)
    \/ EnqueueStep(1, MaxJobs)
    \/ WorkerRun(1)
    \/ StatusRequest

ObserverSpec == Init /\ [][NextObserver]_vars

\* The process of LiveSpec with statistics requests: the request thread is
\* scheduled like the workers, so a request that can get the lock again and
\* again eventually gets it.
NextStats ==
    \/ \E t \in RegisteredTypes : RegisterHandler(t)
    \/ (Started = {} /\ StartStep(MaxWorkers))
    \/ \E c \in Clients : EnqueueStep(c, MaxJobs)
    \/ \E w \in Workers : WorkerStep(w)
    \/ GetQueueStats
    \/ GetRunningCount

StatsSpec ==
    /\ Init /\ [][NextStats]_vars
    /\ \A w \in Workers : SF_vars(WorkerStep(w))
    /\ SF_vars(GetRunningCount)

\* One run of sync_onedrive_folder on the handler's thread.
NextSync == SyncOneDriveFolder

SyncSpec == Init /\ [][NextSync]_vars

\* ------------------------------------------------------------------- claims
Range(q) == {q[i] : i \in 1..Len(q)}
Terminal(j) == j \in DOMAIN jobs /\ jobs[j].status \in {DONE, ERROR}
RunningJobs == {j \in DOMAIN jobs : jobs[j].status = RUNNING}
\* enqueue has returned j to its caller: j is in the queue or was dequeued.
Accepted(j) ==
    /\ j \in DOMAIN jobs
    /\ \A c \in Clients : cjob[c] # j
\* The only moves a status makes.
StatusMoves == {<<QUEUED, RUNNING>>, <<RUNNING, DONE>>, <<RUNNING, ERROR>>}

\* C1: in every step, a job that is created starts QUEUED, and the status of
\* an existing job either stays as it is or moves QUEUED -> RUNNING,
\* RUNNING -> DONE or RUNNING -> ERROR; so it never moves backwards and a DONE
\* or ERROR status never changes again.
C1_StatusOrder ==
    [][/\ \A j \in DOMAIN jobs' \ DOMAIN jobs : jobs'[j].status = QUEUED
       /\ \A j \in DOMAIN jobs \cap DOMAIN jobs' :
             \/ jobs'[j].status = jobs[j].status
             \/ <<jobs[j].status, jobs'[j].status>> \in StatusMoves]_vars

\* C1 witness: one job went all the way to DONE and another to ERROR.
C1_Witness ==
    \E j, k \in DOMAIN jobs : jobs[j].status = DONE /\ jobs[k].status = ERROR

\* C2: the number of jobs whose status is RUNNING never exceeds max_concurrent.
C2_RunningBounded == Cardinality(RunningJobs) <= max_concurrent

\* C2 witness: more workers than slots, every slot taken by a RUNNING job and
\* another worker holding a dequeued job at the wait loop.
C2_Witness ==
    /\ Cardinality(Started) > max_concurrent
    /\ Cardinality(RunningJobs) = max_concurrent
    /\ \E w \in Workers : wpc[w] = "sleep" /\ AtLimit


\* C3: with at least one worker started and shutdown never called, every job
\* accepted by enqueue eventually reaches DONE or ERROR.
C3_EveryJobEnds ==
    \A j \in JobIds : (Accepted(j) /\ Started # {}) ~> Terminal(j)

\* C3, the state the code gets stuck in: a finished job's worker needs
\* _running_lock to give its slot back while another worker sleeps in the
\* wait loop holding that lock.
C3_Stuck ==
    \E w, v \in Workers :
        /\ wpc[w] \in {"check", "sleep"} /\ AtLimit /\ running_lock = w
        /\ wpc[v] = "release" /\ Terminal(wjob[v])
        /\ jobs[wjob[w]].status = QUEUED


\* The enqueue calls whose put has been attempted, Full or not.
PutsTried == (nextId - 1) - Cardinality({c \in Clients : cpc[c] = "put"})
Min(a, b) == IF a <= b THEN a ELSE b

\* C4: while no worker drains the queue, after k put attempts exactly
\* min(k, max_queue_size) ids are in the queue, in every state: the first
\* max_queue_size calls are accepted, every later one gets queue.Full, and the
\* queue never holds more than max_queue_size ids, whichever way concurrent
\* calls interleave.
C4_FirstCapacityAccepted ==
    Started = {} =>
        /\ Len(queue) = Min(PutsTried, max_queue_size)
        /\ Len(queue) <= max_queue_size
        /\ \A c \in Clients : cpc[c] = "full" => Len(queue) = max_queue_size

\* C4 witness: capacity 2, two calls accepted and the third one, made while
\* another call is in flight, has got queue.Full.
C4_Witness ==
    /\ Started = {}
    /\ max_queue_size = 2
    /\ Len(queue) = 2
    /\ \E c, d \in Clients : cpc[c] = "full" /\ cjob[c] = 3 /\ cpc[d] = "put"

\* C5: an enqueue call that gets queue.Full is never blocked at the put or
\* in the except clause; neither of its two steps changes the queue, the put
\* changes no job record, and the except clause removes exactly the record of
\* the rejected id. The rejected id is in no queue slot and with no worker,
\* and an id absent from the job map is never queued, held or created again.
C5_RejectedLeavesNoTrace ==
    [][/\ \A c \in Clients :
            /\ cpc[c] = "put" => ENABLED EnqueuePut(c)
            /\ cpc[c] = "full" => ENABLED EnqueueFull(c)
            /\ (cpc[c] = "put" /\ cpc'[c] = "full") =>
                   queue' = queue /\ jobs' = jobs
            /\ (cpc[c] = "full" /\ cpc'[c] = "idle") =>
                   /\ queue' = queue
                   /\ DOMAIN jobs' = DOMAIN jobs \ {cjob[c]}
                   /\ \A j \in DOMAIN jobs' : jobs'[j] = jobs[j]
            /\ cpc'[c] = "full" =>
                   /\ cjob'[c] \notin Range(queue')
                   /\ \A w \in Workers : wjob'[w] # cjob'[c]
       /\ \A j \in 1..(nextId' - 1) :
            j \notin DOMAIN jobs' =>
                /\ j \notin Range(queue')
                /\ \A w \in Workers : wjob'[w] # j
       /\ \A j \in 1..(nextId - 1) :
            j \notin DOMAIN jobs => j \notin DOMAIN jobs']_vars

\* C5 witness: a rejected call has returned (its id is gone from the job map
\* and no caller holds it), the queue is still full and workers are running.
C5_Witness ==
    \E j \in 1..(nextId - 1) :
        /\ j \notin DOMAIN jobs
        /\ \A c \in Clients : cjob[c] # j
        /\ QueueIsFull
        /\ Started # {}


\* C6: the step in which a worker dequeues an id shortens the queue by one
\* while the dequeued job is still QUEUED, and a put made when the queue
\* holds fewer than max_queue_size ids appends the id and returns it: a slot
\* is free again from the dequeue on, not from the job's start or end.
C6_DequeueFreesSlot ==
    [][/\ \A w \in Workers :
            (wpc[w] = "get" /\ wpc'[w] = "acquire") =>
                /\ queue = <<wjob'[w]>> \o queue'
                /\ Len(queue') < max_queue_size
                /\ jobs'[wjob'[w]].status = QUEUED
       /\ \A c \in Clients :
            (cpc[c] = "put" /\ cpc'[c] # "put"
                            /\ Len(queue) < max_queue_size) =>
                /\ cpc'[c] = "idle"
                /\ queue' = Append(queue, cjob[c])
                /\ cjob[c] \in DOMAIN jobs']_vars

\* C6 witness: capacity 2, max_concurrent 1; A (1) and B (2) were accepted,
\* C (3) was rejected, a worker holds A, which has neither started nor
\* finished, and D (4) has been accepted behind B.
C6_Witness ==
    /\ max_queue_size = 2
    /\ max_concurrent = 1
    /\ DOMAIN jobs = {1, 2, 4}
    /\ queue = <<2, 4>>
    /\ cpc[1] = "idle"
    /\ \E w \in Workers : wjob[w] = 1 /\ jobs[1].status = QUEUED


\* A job no worker holds any more; once terminal it is finished.
Unheld(j) == \A w \in Workers : wjob[w] # j
\* The text piece is part of the message.
Contains(msg, piece) == \E i \in 1..Len(msg) : msg[i] = piece

\* C7: when _process_job ends after the handler returned, the job is DONE,
\* its progress is 1.0, its result is the value the handler returned (the
\* params for a handler that returns its params) and its error is None; and a
\* DONE job no worker holds is never changed again.
C7_DoneOutcome ==
    [][/\ \A w \in Workers :
            (wpc'[w] = "release" /\ wloc'[w].result # NoneVal) =>
                LET job == jobs'[wjob'[w]]
                IN  /\ job.status = DONE
                    /\ job.progress = ProgressOne
                    /\ job.result = wloc'[w].result
                    /\ (wpc[w] = "done_result" /\ wloc[w].result = jobs[wjob[w]].params)
                           => job.result = job.params
                    /\ job.error = NoneMsg
       /\ \A j \in DOMAIN jobs :
            (jobs[j].status = DONE /\ Unheld(j)) =>
                j \in DOMAIN jobs' /\ jobs'[j] = jobs[j]]_vars

\* C7 witness: the handler reported 0.4, returned its params, and the job
\* ended DONE with progress 1.0.
C7_Witness ==
    \E w \in Workers :
        /\ wpc[w] = "release"
        /\ wloc[w].reports > 0 /\ wloc[w].last # ProgressOne
        /\ wloc[w].result = jobs[wjob[w]].params
        /\ jobs[wjob[w]].progress = ProgressOne

\* C8: when _process_job ends after the handler raised, the job is ERROR, its
\* error is the exception's message, the trace is stored in the record, the
\* result is None and progress is the fraction the handler last reported (the
\* default 0.0 if it reported none); and an ERROR job no worker holds is never
\* changed again.
C8_ErrorOutcome ==
    [][/\ \A w \in Workers :
            (wpc'[w] = "release" /\ wloc'[w].e \in HandlerErrors) =>
                LET job == jobs'[wjob'[w]]
                IN  /\ job.status = ERROR
                    /\ job.error = wloc'[w].e
                    /\ job.progress_message = FormatExc
                    /\ job.result = NoneVal
                    /\ job.progress = wloc'[w].last
                    /\ wloc'[w].reports > 0 => job.progress \in ProgressVals
       /\ \A j \in DOMAIN jobs :
            (jobs[j].status = ERROR /\ Unheld(j)) =>
                j \in DOMAIN jobs' /\ jobs'[j] = jobs[j]]_vars

\* C8 witness: the handler reported 0.4 and raised; the job ended ERROR with
\* progress 0.4.
C8_Witness ==
    \E w \in Workers :
        /\ wpc[w] = "release"
        /\ wloc[w].e \in HandlerErrors
        /\ wloc[w].reports > 0
        /\ jobs[wjob[w]].progress = 4
        /\ jobs[wjob[w]].status = ERROR

\* C9: a lookup that finds no handler for the job's type goes straight to the
\* except clause, and when _process_job ends that way the job is ERROR, its
\* error names the job's type, no handler ran (no report, no return value)
\* and the result is None.
C9_NoHandler ==
    [][\A w \in Workers :
         /\ (wpc[w] = "lookup" /\ wpc'[w] # "lookup"
                               /\ jobs[wjob[w]].type \notin handlers) =>
                /\ wpc'[w] = "err_status"
                /\ Contains(wloc'[w].e, jobs[wjob[w]].type)
                /\ jobs' = jobs
         /\ (wpc'[w] = "release" /\ wloc'[w].e \notin HandlerErrors \cup {NoneMsg}) =>
                LET job == jobs'[wjob'[w]]
                IN  /\ job.status = ERROR
                    /\ Contains(job.error, job.type)
                    /\ job.result = NoneVal
                    /\ wloc'[w].result = NoneVal
                    /\ wloc'[w].reports = 0
                    /\ job.progress = ProgressZero]_vars

\* C9 witness: a job of a type without handler ended ERROR, the type in its
\* error message.
C9_Witness ==
    \E w \in Workers :
        /\ wpc[w] = "release"
        /\ jobs[wjob[w]].type = "onedrive_sync"
        /\ jobs[wjob[w]].status = ERROR
        /\ Contains(jobs[wjob[w]].error, "onedrive_sync")


\* C10: an exception raised by the handler is caught (the worker goes to the
\* except clause), the worker then leaves _process_job through the finally
\* clause, which takes one off _running_count, and is back at the head of its
\* loop; and with a single worker started every accepted job, so also one
\* enqueued after a failing job, eventually reaches DONE or ERROR, and the
\* worker of a failing job eventually gets back to the head of its loop.
C10_WorkerSurvivesFailure ==
    /\ [][\A w \in Workers :
            /\ (wpc[w] = "handler" /\ wloc'[w].e # NoneMsg) =>
                   wpc'[w] = "err_status"
            /\ (wpc[w] = "err_message" /\ wpc'[w] # "err_message") =>
                   wpc'[w] = "release" /\ jobs'[wjob[w]].status = ERROR
            /\ (wpc[w] = "release" /\ wpc'[w] # "release") =>
                   /\ wpc'[w] = "loop"
                   /\ running_count' = running_count - 1
                   /\ running_lock' = Free]_vars
    /\ \A j \in JobIds :
          (Accepted(j) /\ Cardinality(Started) = 1) ~> Terminal(j)
    /\ \A w \in Workers :
          (wpc[w] = "err_status" /\ Cardinality(Started) = 1)
              ~> (wpc[w] = "loop" /\ running_count = 0)

\* C10 witness: a single worker; the first job failed in its handler, the
\* worker went back to its loop and has since finished the second job.
C10_Witness ==
    /\ Cardinality(Started) = 1
    /\ 1 \in DOMAIN jobs /\ jobs[1].status = ERROR /\ jobs[1].error \in HandlerErrors
    /\ Terminal(2)
    /\ \A w \in Workers : wjob[w] = 0
    /\ queue = <<>>
    /\ running_count = 0

\* C11: in every step in which the handler of a job does not report a
\* fraction below its previous report, the job's progress, which is what a
\* status query returns, does not go down: not when the job becomes RUNNING,
\* not with a report, not when it becomes DONE or ERROR; and it stays within
\* 0.0 .. 1.0.
C11_ProgressNeverLowered ==
    [][\A j \in DOMAIN jobs \cap DOMAIN jobs' :
          (\A w \in Workers :
               (wjob[w] = j /\ wpc[w] = "handler" /\ wpc'[w] = "report_message")
                   => wloc'[w].last >= wloc[w].last)
          => /\ jobs'[j].progress >= jobs[j].progress
             /\ get_status(j)[1].progress \in ProgressZero..ProgressOne]_vars

\* C11 witness: the handler reported twice, 0.7 at last, returned, and the
\* finished job shows 1.0; another job's handler reported 0.4 and raised, and
\* that job shows 0.4.
C11_Witness ==
    /\ \E w \in Workers :
          /\ wpc[w] = "release"
          /\ wloc[w].reports = 2 /\ wloc[w].last = 7
          /\ jobs[wjob[w]].status = DONE
          /\ jobs[wjob[w]].progress = ProgressOne
    /\ \E k \in DOMAIN jobs : jobs[k].status = ERROR /\ jobs[k].progress = 4

\* Job j has ended and its worker is done with it.
Finished(j) == j \in DOMAIN jobs /\ Terminal(j) /\ Unheld(j)
\* The rows of table "documents" with this file_hash.
RowsOf(file_hash) ==
    {i \in 1..Len(documents) : documents[i].file_hash = file_hash}

NeverGenerated == nextId..(MaxCalls + 1)

\* C13: the step in which enqueue returns an id leaves the id's record in the
\* job map; the record of an accepted id stays in the map in every later step,
\* whatever its status, with its type and params, so get_status returns it;
\* and get_status returns None for every id not generated so far. A job that
\* failed is found, with status ERROR.
C13_AcceptedStaysFound ==
    [][/\ \A c \in Clients :
            (cpc[c] = "put" /\ cpc'[c] = "idle") =>
                /\ cjob[c] \in DOMAIN jobs'
                /\ jobs'[cjob[c]] = jobs[cjob[c]]
       /\ \A j \in DOMAIN jobs :
            Accepted(j) =>
                /\ j \in DOMAIN jobs'
                /\ Len(get_status(j)') = 1
                /\ get_status(j)'[1].status \in JobStatus
                /\ get_status(j)'[1].type = jobs[j].type
                /\ get_status(j)'[1].params = jobs[j].params
                /\ jobs[j].status = ERROR => get_status(j)'[1].status = ERROR
       /\ \A j \in NeverGenerated :
            j >= nextId' => get_status(j)' = <<>>]_vars

\* C13 witness: job 1 failed and no worker holds it any more: get_status
\* returns its record, with status ERROR; id 2 was never generated and
\* get_status returns None for it.
C13_Witness ==
    /\ Len(get_status(1)) = 1
    /\ get_status(1)[1].status = ERROR
    /\ Unheld(1)
    /\ nextId = 2
    /\ get_status(2) = <<>>


\* The places that hold job id j: slots of the queue, workers, and enqueue
\* calls that have not returned.
Holders(j) ==
    Cardinality({i \in 1..Len(queue) : queue[i] = j})
        + Cardinality({w \in Workers : wjob[w] = j})
        + Cardinality({c \in Clients : cjob[c] = j})

\* C14: a job id is in one place at a time: with the enqueue call, in one
\* queue slot, or with one worker; an id that is in no place any more (its job
\* ended DONE or ERROR) never gets back into the queue or to a worker; a
\* worker takes an id only off the head of the queue, and only a job still
\* QUEUED; and the handler is entered only for a job that never completed
\* before.
C14_QueuedOnceRunOnce ==
    /\ [](\A j \in DOMAIN jobs :
            /\ Holders(j) <= 1
            /\ Holders(j) = 0 => Terminal(j)
            /\ j \in Range(queue) => jobs[j].status = QUEUED)
    /\ [][/\ \A j \in DOMAIN jobs :
               /\ Holders(j) = 0 => (j \in DOMAIN jobs' /\ Holders(j)' = 0)
               /\ (Accepted(j) /\ j \notin Range(queue)) => j \notin Range(queue')
          /\ \A w \in Workers :
               /\ (wjob'[w] # wjob[w] /\ wjob'[w] # 0) =>
                      /\ wjob[w] = 0
                      /\ queue = <<wjob'[w]>> \o queue'
                      /\ jobs[wjob'[w]].status = QUEUED
               /\ (wpc[w] = "lookup" /\ wpc'[w] = "handler") =>
                      /\ jobs[wjob[w]].status = RUNNING
                      /\ jobs[wjob[w]].completed_at = NoneVal
                      /\ jobs[wjob[w]].error = NoneMsg
                      /\ jobs[wjob[w]].result = NoneVal]_vars

\* C14 witness: job 1 ended ERROR and is in no place any more, while the
\* worker that ran it has taken job 2 and entered its handler.
C14_Witness ==
    /\ 1 \in DOMAIN jobs /\ jobs[1].status = ERROR /\ Holders(1) = 0
    /\ \E w \in Workers : wjob[w] = 2 /\ wpc[w] = "handler"
    /\ Cardinality(Started) = 1

\* Job j failed, or is about to be marked failed, for a missing handler.
MissingHandler(j) ==
    /\ j \in DOMAIN jobs
    /\ \/ jobs[j].error = NoHandlerMessage(jobs[j].type)
       \/ \E w \in Workers :
              wjob[w] = j /\ wloc[w].e = NoHandlerMessage(jobs[j].type)

\* C15: enqueue accepts a job whatever the registry holds; the registry only
\* grows; a worker's lookup goes by the registry as it is at that step, so it
\* enters the handler when the type is registered by then; and a job that is
\* still in the queue when its type is registered never fails for a missing
\* handler.
C15_LookupAtProcessing ==
    /\ [][/\ handlers \subseteq handlers'
          /\ \A c \in Clients :
                (cpc[c] = "put" /\ cpc'[c] = "idle") =>
                    jobs[cjob[c]].type \notin handlers
          /\ \A w \in Workers :
                (wpc[w] = "lookup" /\ wpc'[w] # "lookup"
                                   /\ jobs[wjob[w]].type \in handlers) =>
                    /\ wpc'[w] = "handler"
                    /\ wloc'[w] = wloc[w]
                    /\ jobs' = jobs]_vars
    /\ \A j \in JobIds :
          []((j \in Range(queue) /\ jobs[j].type \in handlers)
                => [](~MissingHandler(j)))

\* C15 witness: both jobs were enqueued before the handler of their type was
\* registered; job 1 was looked up before the registration and failed for the
\* missing handler, job 2 was still in the queue at the registration, ran in
\* the handler and ended DONE.
C15_Witness ==
    /\ DOMAIN jobs = {1, 2}
    /\ jobs[1].type = jobs[2].type
    /\ MissingHandler(1) /\ jobs[1].status = ERROR
    /\ jobs[2].status = DONE /\ jobs[2].result # NoneVal

\* C16: once the shutdown flag is set, no worker takes an id off the queue,
\* and a job that waits in the queue or is enqueued afterwards keeps status
\* QUEUED.
C16_NoDequeueAfterShutdown ==
    [][shutdown =>
          /\ \A w \in Workers : ~(wpc[w] = "get" /\ wpc'[w] = "acquire")
          /\ queue' = queue \/ \E j \in DOMAIN jobs' : queue' = Append(queue, j)
          /\ \A j \in Range(queue) : jobs'[j].status = QUEUED]_vars

\* C16, the race: the flag is set while a worker that has passed the loop
\* test waits in queue.get, and a job is in the queue for it to take.
C16_Race ==
    /\ shutdown
    /\ queue # <<>>
    /\ \E w \in Workers : wpc[w] = "get"

\* Id a is ahead of id b in sequence q.
Before(q, a, b) ==
    \E i, k \in 1..Len(q) : i < k /\ q[i] = a /\ q[k] = b

\* C17: with ids accepted in the order they are generated, the queue holds
\* them in that order, and the id a worker takes is the oldest accepted id
\* not taken before: every id in the queue was accepted after it, and every
\* accepted id generated before it has been dequeued already. A step never
\* takes an id that has another one ahead of it, and never reorders the ids
\* that stay in the queue.
C17_DequeuedInAcceptOrder ==
    [][/\ \A a, b \in Range(queue) :
            Before(queue, a, b) =>
                /\ a < b
                /\ b \in Range(queue')
                /\ a \in Range(queue') => Before(queue', a, b)
       /\ \A w \in Workers :
            (wpc[w] = "get" /\ wpc'[w] = "acquire") =>
                /\ \A b \in Range(queue') : wjob'[w] < b
                /\ \A a \in DOMAIN jobs :
                      a < wjob'[w] => a \notin Range(queue)
       /\ \A c \in Clients :
            (cpc[c] = "put" /\ cpc'[c] = "idle") =>
                \A a \in Range(queue) : Before(queue', a, cjob[c])]_vars

\* C17 witness: job 1 was accepted and dequeued before job 2, job 1 is still
\* with its worker and not finished, job 2 has finished before it, and job 3
\* waits in the queue.
C17_Witness ==
    /\ DOMAIN jobs = {1, 2, 3}
    /\ \E w \in Workers : wjob[w] = 1
    /\ ~Terminal(1)
    /\ Terminal(2) /\ Unheld(2)
    /\ queue = <<3>>

\* Worker w is in process_document past a duplicate check that found a row.
OnDuplicatePath(w) ==
    wjob[w] # 0 /\ wloc[w].stage \in {"duplicate", "return_duplicate"}
\* Worker w takes the step.
Moves(w) == wpc'[w] # wpc[w] \/ wloc'[w].stage # wloc[w].stage

\* C18: process_document takes the duplicate branch only when a row with the
\* file's hash is in table "documents"; from there on no step of it writes a
\* table, extracts text or entities, or raises, and when _process_job ends
\* the job is DONE with result.status "duplicate", the file's hash in the
\* result and progress 1.0.
C18_DuplicateShortCircuit ==
    [][\A w \in Workers :
         /\ (wloc[w].stage = "check" /\ wloc'[w].stage = "duplicate") =>
                HasDocument(wloc[w].file_hash)
         /\ (OnDuplicatePath(w) /\ Moves(w)) =>
                /\ documents' = documents
                /\ document_metadata' = document_metadata
                /\ wloc'[w].text_content = <<>>
                /\ wloc'[w].entities = {}
                /\ wloc'[w].e = NoneMsg
                /\ wpc'[w] = "release" =>
                       /\ jobs'[wjob[w]].status = DONE
                       /\ jobs'[wjob[w]].progress = ProgressOne
                       /\ jobs'[wjob[w]].error = NoneMsg
                       /\ jobs'[wjob[w]].result.status = "duplicate"
                       /\ jobs'[wjob[w]].result.file_hash =
                              compute_file_hash(jobs[wjob[w]].params)]_vars

\* C18 witness: job 2 ended DONE as a duplicate of the one row in the table,
\* written by job 1 for the same bytes under another file name, and no
\* metadata row was added for it.
C18_Witness ==
    /\ DOMAIN jobs = {1, 2}
    /\ Unheld(1) /\ Unheld(2)
    /\ jobs[1].params.filename # jobs[2].params.filename
    /\ jobs[2].status = DONE
    /\ jobs[2].result.status = "duplicate"
    /\ Len(documents) = 1
    /\ documents[1].file_hash = jobs[2].result.file_hash
    /\ Len(document_metadata) <= 1

\* C19: a failure of the entity extraction is not surfaced as a job error: no
\* worker carries the extraction's exception to the except clause of
\* _process_job, and no job has it as its error.
C19_EntityFailureNotFatal ==
    /\ \A w \in Workers : wloc[w].e \notin EntityErrors
    /\ \A j \in DOMAIN jobs : jobs[j].error \notin EntityErrors

\* C19, what the code does: the exception of extract_entities ended the job
\* as ERROR at the 0.6 checkpoint, and no row was written for the document.
C19_Failed ==
    \E j \in DOMAIN jobs :
        /\ jobs[j].status = ERROR
        /\ jobs[j].error \in EntityErrors
        /\ jobs[j].progress = CheckpointEntities
        /\ Unheld(j)
        /\ supabase
        /\ ~HasDocument(compute_file_hash(jobs[j].params))


\* C20: process_document goes on past the text extraction only with text
\* that is more than whitespace; when it raises for want of text it has
\* extracted no entities, and from then on to the end of _process_job no step
\* of the worker writes a table, and the job ends ERROR with that message and
\* progress 0.3.
C20_NoTextFails ==
    [][\A w \in Workers :
         /\ (wloc[w].stage = "extract" /\ wloc'[w].stage = "report_entities") =>
                /\ wloc'[w].text_content # <<>>
                /\ Len(Strip(wloc'[w].text_content)) > 0
         /\ (wloc'[w].e = NoTextError /\ Moves(w)) =>
                /\ documents' = documents
                /\ document_metadata' = document_metadata
                /\ wloc'[w].entities = {}
                /\ wloc'[w].stage = "extract"
                /\ jobs'[wjob[w]].progress = CheckpointExtract
                /\ wpc'[w] = "release" =>
                       /\ jobs'[wjob[w]].status = ERROR
                       /\ jobs'[wjob[w]].error = NoTextError
                       /\ jobs'[wjob[w]].result = NoneVal]_vars

\* C20 witness: a job failed for want of text: ERROR, progress 0.3, and the
\* tables are empty though a database is configured.
C20_Witness ==
    \E j \in DOMAIN jobs :
        /\ jobs[j].status = ERROR
        /\ jobs[j].error = NoTextError
        /\ jobs[j].progress = CheckpointExtract
        /\ Unheld(j)
        /\ supabase
        /\ documents = <<>> /\ document_metadata = <<>>


\* A row of table "documents" has this id.
HasRow(document_id) ==
    \E i \in 1..Len(documents) : documents[i].id = document_id

\* Worker w was stopped by the exception of the metadata insert.
MetadataFailed(w) == wloc[w].stage = "metadata" /\ wpc[w] # "handler"

\* Every metadata row belongs to a document row of the table, and a worker
\* stopped by the metadata insert carries the store failure, has its document
\* row in the table, and has marked its job ERROR when _process_job is over.
MetadataAfterDocument ==
    /\ \A i \in 1..Len(document_metadata) :
           HasRow(document_metadata[i].document_id)
    /\ \A w \in Workers :
           MetadataFailed(w) =>
               /\ wloc[w].e \in {StoreFailedMessage(e) : e \in StoreErrors}
               /\ HasRow(wloc[w].document_id)
               /\ wpc[w] = "release" =>
                      /\ jobs[wjob[w]].status = ERROR
                      /\ jobs[wjob[w]].error = wloc[w].e
                      /\ jobs[wjob[w]].progress = CheckpointStore

\* C21: the document row is written before its entity metadata: a metadata
\* row is only ever added for a document row already in the table. When the
\* metadata insert raises after the document insert succeeded, no step
\* removes a document row, the row inserted by the job is still in the table
\* at every step down to the end of _process_job, and the job ends ERROR with
\* the store failure as its error.
C21_NoRollback ==
    [][/\ Len(documents') >= Len(documents)
       /\ SubSeq(documents', 1, Len(documents)) = documents
       /\ MetadataAfterDocument']_vars

\* C21 witness: the only job ended ERROR with the store failure, its document
\* row is in the table and the table of metadata is empty.
C21_Witness ==
    /\ DOMAIN jobs = {1}
    /\ Finished(1)
    /\ jobs[1].status = ERROR
    /\ jobs[1].error \in {StoreFailedMessage(e) : e \in StoreErrors}
    /\ Len(documents) = 1
    /\ documents[1].file_hash = compute_file_hash(jobs[1].params)
    /\ document_metadata = <<>>


\* C24: a job's result is set only if its status is DONE and its error is set
\* only if its status is ERROR; no job ever has both.
C24_ResultXorError ==
    \A j \in DOMAIN jobs :
        /\ jobs[j].result # NoneVal => jobs[j].status = DONE
        /\ jobs[j].error # NoneMsg => jobs[j].status = ERROR
        /\ jobs[j].result = NoneVal \/ jobs[j].error = NoneMsg

\* C24 witness: of two finished jobs one is DONE with a result and no error,
\* the other ERROR with an error and no result.
C24_Witness ==
    \E j, k \in DOMAIN jobs :
        /\ Finished(j) /\ Finished(k)
        /\ jobs[j].status = DONE /\ jobs[j].result # NoneVal
        /\ jobs[j].error = NoneMsg
        /\ jobs[k].status = ERROR /\ jobs[k].error # NoneMsg
        /\ jobs[k].result = NoneVal


EntersRunning(b) ==
    /\ b \in DOMAIN jobs'
    /\ jobs[b].status = QUEUED
    /\ jobs'[b].status = RUNNING

\* C27 as stated: jobs enter RUNNING in submission order: when a job's status
\* becomes RUNNING, every job accepted before it has left QUEUED already,
\* whatever the number of workers and max_concurrent.
C27_RunningInAcceptOrder ==
    [][\A b \in DOMAIN jobs :
         EntersRunning(b) =>
             \A a \in DOMAIN jobs : a < b => jobs[a].status # QUEUED]_vars

\* C27 amended: when a job's status becomes RUNNING, every job accepted
\* before it has been taken from the queue by a worker; with a single worker
\* thread every such job has left QUEUED as well.
C27_RunningAfterEarlierDequeued ==
    [][\A b \in DOMAIN jobs :
         EntersRunning(b) =>
             /\ \A a \in DOMAIN jobs : a < b => a \notin Range(queue)
             /\ Cardinality(Started) = 1 =>
                    \A a \in DOMAIN jobs : a < b => jobs[a].status # QUEUED]_vars

\* C27 witness: with one worker thread, job 1 has finished, job 2 is RUNNING
\* and job 3 waits in the queue.
C27_Witness ==
    /\ Cardinality(Started) = 1
    /\ DOMAIN jobs = {1, 2, 3}
    /\ Finished(1)
    /\ jobs[2].status = RUNNING
    /\ queue = <<3>>


\* The accepted jobs that have not ended.
Unfinished == {j \in DOMAIN jobs : Accepted(j) /\ ~Terminal(j)}

\* C28: the accepted jobs that are not yet DONE or ERROR are never more than
\* max_queue_size plus the number of worker threads: each of them is either
\* in the queue or with the worker that dequeued it.
C28_UnfinishedBounded ==
    /\ Cardinality(Unfinished) <= max_queue_size + Cardinality(Started)
    /\ \A j \in Unfinished :
           j \in Range(queue) \/ \E w \in Started : wjob[w] = j

\* C28 witness: the bound is met: the queue of capacity 1 is full and the only
\* worker thread holds a job that has not ended.
C28_Witness ==
    /\ max_queue_size = 1
    /\ Cardinality(Started) = 1
    /\ Len(queue) = 1
    /\ Cardinality(Unfinished) = 2
    /\ \E w \in Started : wjob[w] \in Unfinished


\* The errors raised by the except clause around the two inserts.
StoreFailures == {StoreFailedMessage(e) : e \in StoreErrors}

\* Job j has failed in persistence, and a row of table "documents" has the
\* fingerprint of its bytes.
FailedWithRow(j) ==
    /\ Finished(j)
    /\ jobs[j].status = ERROR
    /\ jobs[j].error \in StoreFailures
    /\ HasDocument(compute_file_hash(jobs[j].params))

\* Worker w runs a job for the bytes of a job that failed with its row
\* written.
Resubmission(w) ==
    /\ wjob[w] # 0
    /\ \E j \in DOMAIN jobs :
           /\ FailedWithRow(j)
           /\ jobs[j].params.content = jobs[wjob[w]].params.content

Reading == qpc \in Range(ResponseFields)

\* C23: the fields of a job record are read and written under _jobs_lock, so
\* no write to a job record happens while a status request is reading that
\* record: between the first and the last read of the request the record
\* stays as it is.
C23_NoWriteWhileRead ==
    [][(Reading /\ qjob \in DOMAIN jobs /\ qjob \in DOMAIN jobs') =>
           jobs'[qjob] = jobs[qjob]]_vars

\* C23, what the code allows: a response put together from two states of the
\* job: status read as RUNNING, then completed_at and result read after the
\* worker had finished the job.
C23_TornResponse ==
    /\ qpc = "return"
    /\ response.status = RUNNING
    /\ response.completed_at # NoneVal
    /\ response.result # NoneVal
    /\ jobs[qjob].status = DONE

\* C26: a status request that reads status DONE also reads progress 1.0, a
\* completed_at and the handler's result, and one that reads status ERROR
\* also reads the error message and a completed_at.
C26_TerminalAtomic ==
    qpc = "return" =>
        /\ response.status = DONE =>
               /\ response.progress = ProgressOne
               /\ response.completed_at # NoneVal
               /\ response.result # NoneVal
        /\ response.status = ERROR =>
               /\ response.error # NoneMsg
               /\ response.completed_at # NoneVal

\* C26, what the code allows: the request ran between job.status = DONE and
\* the three assignments after it: status DONE with the progress of the last
\* report, no completed_at and no result.
C26_DoneWithoutResult ==
    /\ qpc = "return"
    /\ response.status = DONE
    /\ response.progress \in ProgressVals
    /\ response.completed_at = NoneVal
    /\ response.result = NoneVal
    /\ wpc[1] = "done_completed"


\* C30: every call of get_running_count returns: a statistics request that
\* waits for _running_lock eventually gets it.
C30_StatsReturns ==
    (stats_pc = "get_running_count") ~> (stats_pc = "idle")

\* C30, the state the request never leaves: it waits for _running_lock, which
\* a worker holds while it sleeps in the wait loop, and every slot is taken
\* by a worker that needs the same lock to give its slot back.
C30_Blocked ==
    /\ stats_pc = "get_running_count"
    /\ AtLimit
    /\ \E w \in Workers : running_lock = w /\ wpc[w] \in {"check", "sleep"}
    /\ \A v \in Workers : running_lock # v => wpc[v] = "release"


\* C22: every file sync_onedrive_folder downloaded is deleted again on every
\* exit path of the file's turn (ingested, duplicate, error): between two
\* files, and when the handler has returned or raised, no downloaded file is
\* on the local disk.
C22_DownloadsDeleted ==
    sync.pc \in {"loop", "done"} => disk = {}

\* C22, what the code does: the handler has returned "success" for a folder
\* of two files, one downloaded and found to be a duplicate, one downloaded
\* and processed or failed; both turns ended in the except clause and both
\* files are still on the local disk.
C22_FilesLeftBehind ==
    /\ sync.pc = "done"
    /\ ~sync.raised
    /\ Len(sync.files) = MaxFiles
    /\ disk = Range(sync.files)
    /\ sync.skipped_count = 1
    /\ sync.processed_count = 0
    /\ sync.error_count = MaxFiles

====
